---- MODULE Spec2Model ----
(***************************************************************************)
(* Model of scripts/transcribe_sidecars.py: the fold of group_segments     *)
(* over a list of raw segments, map_speakers over a paragraph list, the    *)
(* subtitle time stamp formatters, and main's loop over the audio files.   *)
(*                                                                         *)
(* A text is a sequence of one-character strings.  A time is an integer    *)
(* number of half seconds (a dyadic grid, on which float subtraction and   *)
(* comparison are exact), or one of the IEEE values NaN, PosInf, NegInf.   *)
(* A dict key that is absent is the value Absent.                          *)
(***************************************************************************)
EXTENDS Integers, Sequences, FiniteSets, TLC

\* ------------------------------------------------------------------ values

SP == " "
NL == "\n"
TAB == "\t"
DefaultSpeaker == "SPEAKER_00"

\* A dict key that is absent: as a speaker, as a text, as a timing field.
Absent == "<absent>"
AbsentText == <<"<absent>">>
AbsentNum == <<"absent", 0>>

\* Timing values: <<"num", n>> is the float n/2; the other kinds carry 0.
Num(n) == <<"num", n>>
NaN == <<"nan", 0>>
PosInf == <<"inf", 0>>
NegInf == <<"-inf", 0>>
BadStr == <<"str", 0>>

\* The whitespace of re's \s on a str pattern, of str.strip() and of
\* str.split(): the characters with str.isspace().  Those a string of this
\* module can hold are listed; the spaces U+2000..U+200A, U+2028, U+2029,
\* U+202F, U+205F and U+3000 belong to it as well.
CR == "\r"
FF == "\f"
VT == ""
FS == ""
GS == ""
RS == ""
US == ""
NEL == ""
NBSP == " "
OGHAM == " "
Whitespace == {SP, NL, TAB, CR, FF, VT, FS, GS, RS, US, NEL, NBSP, OGHAM}

IsWs(c) == c \in Whitespace

\* ------------------------------------------------------------- clean_text

\* text.replace("\n", " ")
ReplaceNewlines(text) == [k \in 1..Len(text) |-> IF text[k] = NL THEN SP ELSE text[k]]

\* re.sub(r"\s+", " ", text): every maximal run of whitespace becomes one space
RECURSIVE CollapseWs(_)
CollapseWs(text) ==
    IF text = <<>> THEN <<>>
    ELSE IF IsWs(Head(text))
         THEN IF Len(text) > 1 /\ IsWs(text[2])
              THEN CollapseWs(Tail(text))
              ELSE <<SP>> \o CollapseWs(Tail(text))
         ELSE <<Head(text)>> \o CollapseWs(Tail(text))

RECURSIVE LStrip(_)
LStrip(text) ==
    IF text # <<>> /\ IsWs(Head(text)) THEN LStrip(Tail(text)) ELSE text

RECURSIVE RStrip(_)
RStrip(text) ==
    IF text # <<>> /\ IsWs(text[Len(text)])
    THEN RStrip(SubSeq(text, 1, Len(text) - 1))
    ELSE text

\* str.strip()
Strip(text) == RStrip(LStrip(text))

clean_text(text) == Strip(CollapseWs(ReplaceNewlines(text)))

\* ------------------------------------------------------------- word_count

\* str.split(): the maximal runs of non-whitespace, in order
RECURSIVE SplitFrom(_, _)
SplitFrom(text, word) ==
    IF text = <<>>
    THEN IF word = <<>> THEN <<>> ELSE <<word>>
    ELSE IF IsWs(Head(text))
         THEN (IF word = <<>> THEN <<>> ELSE <<word>>) \o SplitFrom(Tail(text), <<>>)
         ELSE SplitFrom(Tail(text), Append(word, Head(text)))

Split(text) == SplitFrom(text, <<>>)

word_count(text) == IF text = <<>> THEN 0 ELSE Len(Split(text))

\* ------------------------------------------------------------ float values

\* float(x): a float, finite or not, converts to itself; a non-numeric string
\* raises ValueError
FloatRaises(v) == v = BadStr

\* a - b on floats
FSub(a, b) ==
    IF a = NaN \/ b = NaN THEN NaN
    ELSE IF a = PosInf THEN (IF b = PosInf THEN NaN ELSE PosInf)
    ELSE IF a = NegInf THEN (IF b = NegInf THEN NaN ELSE NegInf)
    ELSE IF b = PosInf THEN NegInf
    ELSE IF b = NegInf THEN PosInf
    ELSE Num(a[2] - b[2])

\* a >= b on floats: every comparison with NaN is false
FGe(a, b) ==
    IF a = NaN \/ b = NaN THEN FALSE
    ELSE IF a = PosInf \/ b = NegInf THEN TRUE
    ELSE IF a = NegInf \/ b = PosInf THEN FALSE
    ELSE a[2] >= b[2]

\* ---------------------------------------------------------- group_segments

VARIABLES
    segments,         \* the argument: a list of raw segment dicts
    gap_seconds,      \* the argument, in half seconds
    max_words,        \* the argument
    progress,         \* whether a progress callback was passed
    i,                \* the for loop's position: segments[i] is taken next
    grouped,          \* the local list of closed paragraphs
    current,          \* the open paragraph: <<>> is None, <<p>> is the dict p
    processed_words,  \* the local running total
    calls,            \* the values the progress callback has received
    pc,               \* "loop", "returned" or "raised"
    branch,           \* the branch the last iteration took
    members,          \* per paragraph opened so far, the indices of the
                      \* segments that went into it (a history variable)
    paragraphs,       \* map_speakers: its argument
    mapping,          \* map_speakers: the dict, as its items in insertion order
    prev_mapping,     \* what the previous call of map_speakers returned
    runs,             \* how many times map_speakers has been called
    mi,               \* map_speakers: the for loop's position
    mpc,              \* map_speakers: "idle", "loop" or "returned"
    seconds,          \* format_*_timestamp: the argument, in 1/Ticks seconds
    stamp,            \* format_*_timestamp: the string returned
    spc,              \* which formatter returned last: "idle", "srt" or "vtt"
    audio_files,      \* main: the resolved audio files, sorted
    overwrite,        \* main: args.overwrite
    format,           \* main: args.format
    fs,               \* the file system: what each sidecar path holds
    fi,               \* main: the for loop's position
    transcribed,      \* main: the files transcribe_audio was called on, in order
    writes,           \* main: the sidecar writes made, in order
    apc               \* main: "idle", "loop", "write", "returned" or "raised"

gvars == <<segments, gap_seconds, max_words, progress, i, grouped, current,
           processed_words, calls, pc, branch, members>>
mvars == <<paragraphs, mapping, prev_mapping, runs, mi, mpc>>
svars == <<seconds, stamp, spc>>
avars == <<audio_files, overwrite, format, fs, fi, transcribed, writes, apc>>
vars == <<gvars, mvars, svars, avars>>

\* line 415: clean_text(seg.get("text", ""))
SegText(seg) == clean_text(IF seg.text = AbsentText THEN <<>> ELSE seg.text)

\* line 418: seg.get("speaker") or "SPEAKER_00"
SegSpeaker(seg) ==
    IF seg.speaker = Absent \/ seg.speaker = "" THEN DefaultSpeaker ELSE seg.speaker

\* line 419: float(seg.get("start", 0.0))
SegStart(seg) == IF seg.start = AbsentNum THEN Num(0) ELSE seg.start

\* Mutant of SegEnd: an absent end defaults to 0.0 rather than to the start.
SegEnd_DefaultZero(seg) == IF seg.end = AbsentNum THEN Num(0) ELSE seg.end

\* line 420: float(seg.get("end", start))
SegEnd(seg) == IF seg.end = AbsentNum THEN SegStart(seg) ELSE seg.end

\* lines 419-420: whether one of the two float() calls raises
TimingRaises(seg) ==
    \/ FloatRaises(SegStart(seg))
    \/ FloatRaises(SegEnd(seg))

\* lines 423-429 and 444-450: the dict a segment opens a paragraph with
NewParagraph(seg) ==
    [speaker |-> SegSpeaker(seg),
     start   |-> SegStart(seg),
     end     |-> SegEnd(seg),
     text    |-> SegText(seg),
     words   |-> word_count(SegText(seg))]

\* line 435
Gap(cur, seg) == FSub(SegStart(seg), cur.end)

\* Mutant of should_break: the speaker is not compared.
should_break_NoSpeaker(cur, seg, gap, cap) ==
    \/ FGe(FSub(SegStart(seg), cur.end), Num(gap))
    \/ cur.words >= cap

\* Mutant of should_break: the gap must exceed the threshold.
should_break_StrictGap(cur, seg, gap, cap) ==
    \/ SegSpeaker(seg) # cur.speaker
    \/ (FGe(FSub(SegStart(seg), cur.end), Num(gap)) /\ FSub(SegStart(seg), cur.end) # Num(gap))
    \/ cur.words >= cap

\* Mutant of should_break: the word count must exceed the cap.
should_break_StrictCap(cur, seg, gap, cap) ==
    \/ SegSpeaker(seg) # cur.speaker
    \/ FGe(FSub(SegStart(seg), cur.end), Num(gap))
    \/ cur.words > cap

\* lines 436-440
should_break(cur, seg, gap, cap) ==
    \/ SegSpeaker(seg) # cur.speaker
    \/ FGe(Gap(cur, seg), Num(gap))
    \/ cur.words >= cap

\* Mutant of Merged: the paragraph's end is moved to the segment's start.
Merged_EndFromStart(cur, seg) ==
    [cur EXCEPT !.text  = cur.text \o <<SP>> \o SegText(seg),
                !.end   = SegStart(seg),
                !.words = cur.words + word_count(SegText(seg))]

\* Mutant of Merged: the paragraph's end is not moved.
Merged_KeepsEnd(cur, seg) ==
    [cur EXCEPT !.text  = cur.text \o <<SP>> \o SegText(seg),
                !.words = cur.words + word_count(SegText(seg))]

\* lines 452-454
Merged(cur, seg) ==
    [cur EXCEPT !.text  = cur.text \o <<SP>> \o SegText(seg),
                !.end   = SegEnd(seg),
                !.words = cur.words + word_count(SegText(seg))]

\* Mutant of Branch: a segment with no text is not skipped.
Branch_NoSkip(cur, seg, gap, cap) ==
    IF TimingRaises(seg) THEN "raise"
    ELSE IF cur = <<>> THEN "open"
    ELSE IF should_break(cur[1], seg, gap, cap) THEN "break"
    ELSE "merge"

\* The path one iteration of the loop takes (lines 415-450).
Branch(cur, seg, gap, cap) ==
    IF SegText(seg) = <<>> THEN "skip"
    ELSE IF TimingRaises(seg) THEN "raise"
    ELSE IF cur = <<>> THEN "open"
    ELSE IF should_break(cur[1], seg, gap, cap) THEN "break"
    ELSE "merge"

\* The locals of group_segments, as one record.
Locals(g, c, w, k) == [grouped |-> g, current |-> c, processed_words |-> w, calls |-> k]

\* lines 431-432 and 457-458
Report(k, cb, w) == IF cb THEN Append(k, w) ELSE k

\* Mutant of LoopBody: a segment with no text still reaches the progress report.
LoopBody_SkipReports(st, seg, gap, cap, cb) ==
    LET b == Branch(st.current, seg, gap, cap)
        w == st.processed_words + word_count(SegText(seg))
    IN  CASE b = "skip"  -> Locals(st.grouped, st.current, w, Report(st.calls, cb, w))
          [] b = "raise" -> st
          [] b = "open"  -> Locals(st.grouped, <<NewParagraph(seg)>>, w, Report(st.calls, cb, w))
          [] b = "break" -> Locals(Append(st.grouped, st.current[1]), <<NewParagraph(seg)>>,
                                   w, Report(st.calls, cb, w))
          [] b = "merge" -> Locals(st.grouped, <<Merged(st.current[1], seg)>>,
                                   w, Report(st.calls, cb, w))

\* Mutant of LoopBody: a closed paragraph is put at the front of the list.
LoopBody_Prepend(st, seg, gap, cap, cb) ==
    LET b == Branch(st.current, seg, gap, cap)
        w == st.processed_words + word_count(SegText(seg))
    IN  CASE b = "skip"  -> st
          [] b = "raise" -> st
          [] b = "open"  -> Locals(st.grouped, <<NewParagraph(seg)>>, w, Report(st.calls, cb, w))
          [] b = "break" -> Locals(<<st.current[1]>> \o st.grouped, <<NewParagraph(seg)>>,
                                   w, Report(st.calls, cb, w))
          [] b = "merge" -> Locals(st.grouped, <<Merged(st.current[1], seg)>>,
                                   w, Report(st.calls, cb, w))

\* Mutant of LoopBody: the segment that opens the first paragraph is not reported.
LoopBody_OpenSilent(st, seg, gap, cap, cb) ==
    LET b == Branch(st.current, seg, gap, cap)
        w == st.processed_words + word_count(SegText(seg))
    IN  CASE b = "skip"  -> st
          [] b = "raise" -> st
          [] b = "open"  -> Locals(st.grouped, <<NewParagraph(seg)>>, w, st.calls)
          [] b = "break" -> Locals(Append(st.grouped, st.current[1]), <<NewParagraph(seg)>>,
                                   w, Report(st.calls, cb, w))
          [] b = "merge" -> Locals(st.grouped, <<Merged(st.current[1], seg)>>,
                                   w, Report(st.calls, cb, w))

\* One iteration of the loop body (lines 415-458) on the locals st.
LoopBody(st, seg, gap, cap, cb) ==
    LET b == Branch(st.current, seg, gap, cap)
        w == st.processed_words + word_count(SegText(seg))
    IN  CASE b = "skip"  -> st
          [] b = "raise" -> st
          [] b = "open"  -> Locals(st.grouped, <<NewParagraph(seg)>>, w, Report(st.calls, cb, w))
          [] b = "break" -> Locals(Append(st.grouped, st.current[1]), <<NewParagraph(seg)>>,
                                   w, Report(st.calls, cb, w))
          [] b = "merge" -> Locals(st.grouped, <<Merged(st.current[1], seg)>>,
                                   w, Report(st.calls, cb, w))

\* Mutant of Returned: the paragraph still open at the end is forgotten.
Returned_NoFlush(st) == st.grouped

\* lines 460-463: the list returned once the loop is over
Returned(st) == IF st.current # <<>> THEN Append(st.grouped, st.current[1]) ELSE st.grouped

\* group_segments as a function of its arguments, for inputs on which no
\* float() raises.
RECURSIVE Fold(_, _, _, _, _)
Fold(st, segs, gap, cap, cb) ==
    IF segs = <<>> THEN st
    ELSE Fold(LoopBody(st, Head(segs), gap, cap, cb), Tail(segs), gap, cap, cb)

group_segments(segs, gap, cap) ==
    Returned(Fold(Locals(<<>>, <<>>, 0, <<>>), segs, gap, cap, FALSE))

\* The history of which segments went into which paragraph, read off the
\* effect of an iteration: a paragraph was opened, or the open one was extended.
MembersAfter(m, b, k) ==
    CASE b \in {"open", "break"} -> Append(m, <<k>>)
      [] b = "merge" -> [m EXCEPT ![Len(m)] = Append(m[Len(m)], k)]
      [] OTHER -> m

ForSeg ==
    /\ pc = "loop"
    /\ i <= Len(segments)
    /\ LET seg == segments[i]
           b   == Branch(current, seg, gap_seconds, max_words)
           st  == LoopBody(Locals(grouped, current, processed_words, calls),
                           seg, gap_seconds, max_words, progress)
       IN  /\ grouped' = st.grouped
           /\ current' = st.current
           /\ processed_words' = st.processed_words
           /\ calls' = st.calls
           /\ branch' = b
           /\ members' = MembersAfter(members, b, i)
           /\ pc' = IF b = "raise" THEN "raised" ELSE "loop"
           /\ i' = IF b = "raise" THEN i ELSE i + 1
    /\ UNCHANGED <<segments, gap_seconds, max_words, progress, mvars, svars, avars>>

Return ==
    /\ pc = "loop"
    /\ i > Len(segments)
    /\ grouped' = Returned(Locals(grouped, current, processed_words, calls))
    /\ pc' = "returned"
    /\ branch' = "return"
    /\ UNCHANGED <<segments, gap_seconds, max_words, progress, i, current,
                   processed_words, calls, members, mvars, svars, avars>>

\* ------------------------------------------------------------------ inputs

MaxSegs == 3

RECURSIVE SeqsUpTo(_, _)
SeqsUpTo(S, n) ==
    IF n = 0 THEN {<<>>}
    ELSE LET shorter == SeqsUpTo(S, n - 1)
         IN  shorter \cup {Append(q, x) : q \in {r \in shorter : Len(r) = n - 1}, x \in S}

Segment(t, sp, s, e) == [text |-> t, speaker |-> sp, start |-> s, end |-> e]

InitLocals ==
    /\ i = 1
    /\ grouped = <<>>
    /\ current = <<>>
    /\ processed_words = 0
    /\ calls = <<>>
    /\ pc = "loop"
    /\ branch = "none"
    /\ members = <<>>

MapIdle ==
    /\ paragraphs = <<>>
    /\ mapping = <<>>
    /\ prev_mapping = <<>>
    /\ runs = 0
    /\ mi = 1
    /\ mpc = "idle"
    /\ seconds = 0
    /\ stamp = <<>>
    /\ spc = "idle"
    /\ audio_files = <<>>
    /\ overwrite = FALSE
    /\ format = "txt"
    /\ fs = <<>>
    /\ fi = 1
    /\ transcribed = <<>>
    /\ writes = <<>>
    /\ apc = "idle"

\* A segment with no text after cleaning; its start is not even a number.
EmptySeg == Segment(<<NL, CR, NBSP>>, "SPEAKER_01", BadStr, Num(0))

\* A segment that is an empty dict.
BareSeg == Segment(AbsentText, Absent, AbsentNum, AbsentNum)

\* A text of one word and a text of two words, both in need of cleaning.
OneWord == <<"a", NL>>
TwoWords == <<FF, "b", NL, VT, "c">>
Speakers == {Absent, "SPEAKER_00", "SPEAKER_01"}

\* Spec: texts and speakers vary; the default gap of 2.5 s is 5 half seconds,
\* and a segment either follows within it or exactly 2.5 s later.
ContentPool ==
    {EmptySeg, BareSeg, Segment(OneWord, "", Num(0), Num(1))} \cup
    {Segment(t, sp, tm[1], tm[2]) :
        t \in {OneWord, TwoWords}, sp \in Speakers,
        tm \in {<<Num(0), Num(1)>>, <<Num(6), Num(7)>>}}

Init ==
    /\ segments \in SeqsUpTo(ContentPool, MaxSegs)
    /\ gap_seconds = 5
    /\ max_words \in {0, 2}
    /\ progress = TRUE
    /\ InitLocals
    /\ MapIdle

Next == ForSeg \/ Return

Spec == Init /\ [][Next]_vars

\* SpecTime: one speaker and one-word texts; starts and ends vary freely, so
\* segments overlap, run backwards and arrive out of order.
TimePool ==
    {EmptySeg, Segment(OneWord, "SPEAKER_01", Num(1), Num(1))} \cup
    {Segment(OneWord, Absent, Num(s), Num(e)) : s \in {0, 1, 3}, e \in {0, 1, 3}}

InitTime ==
    /\ segments \in SeqsUpTo(TimePool, MaxSegs)
    /\ gap_seconds \in {0, 1, 2}
    /\ max_words = 2
    /\ progress = TRUE
    /\ InitLocals
    /\ MapIdle

SpecTime == InitTime /\ [][Next]_vars

\* SpecTiming: timing fields that are absent, negative, not finite, or not
\* numbers at all.
TimingPool ==
    {EmptySeg} \cup
    {Segment(OneWord, Absent, tm[1], tm[2]) :
        tm \in {<<Num(1), Num(2)>>, <<AbsentNum, AbsentNum>>, <<AbsentNum, Num(2)>>,
                <<Num(1), AbsentNum>>, <<Num(-1), Num(1)>>, <<Num(1), Num(-2)>>,
                <<NaN, Num(1)>>, <<Num(1), NaN>>, <<PosInf, PosInf>>,
                <<Num(1), NegInf>>, <<BadStr, Num(1)>>, <<Num(1), BadStr>>}}

InitTiming ==
    /\ segments \in SeqsUpTo(TimingPool, MaxSegs)
    /\ gap_seconds = 5
    /\ max_words = 2
    /\ progress \in BOOLEAN
    /\ InitLocals
    /\ MapIdle

SpecTiming == InitTiming /\ [][Next]_vars

\* ------------------------------------------------------------ map_speakers

Digit == <<"1", "2", "3", "4", "5", "6", "7", "8", "9">>

\* str(n) for n >= 0
RECURSIVE Decimal(_)
Decimal(n) ==
    IF n < 10 THEN <<IF n = 0 THEN "0" ELSE Digit[n]>>
    ELSE Decimal(n \div 10) \o Decimal(n % 10)

\* line 491: f"Speaker {len(mapping) + 1}"
SpeakerName(n) == <<"S", "p", "e", "a", "k", "e", "r", SP>> \o Decimal(n)

\* line 490: label in mapping
HasKey(m, label) == \E k \in 1..Len(m) : m[k][1] = label

\* Mutant of MapBody: the name is numbered by the dict's size before the insertion.
MapBody_OffByOne(m, para) ==
    IF HasKey(m, para.speaker) THEN m
    ELSE Append(m, <<para.speaker, SpeakerName(Len(m))>>)

\* lines 489-491: one iteration of the loop on the dict m
MapBody(m, para) ==
    IF HasKey(m, para.speaker) THEN m
    ELSE Append(m, <<para.speaker, SpeakerName(Len(m) + 1)>>)

MaxParas == 4
MaxRuns == 2

\* line 487: a renderer calls map_speakers (lines 501, 523, 541)
MapCall ==
    /\ mpc \in {"idle", "returned"}
    /\ runs < MaxRuns
    /\ prev_mapping' = mapping
    /\ mapping' = <<>>
    /\ mi' = 1
    /\ runs' = runs + 1
    /\ mpc' = "loop"
    /\ UNCHANGED <<gvars, paragraphs, svars, avars>>

MapFor ==
    /\ mpc = "loop"
    /\ mi <= Len(paragraphs)
    /\ mapping' = MapBody(mapping, paragraphs[mi])
    /\ mi' = mi + 1
    /\ UNCHANGED <<gvars, paragraphs, prev_mapping, runs, mpc, svars, avars>>

MapReturn ==
    /\ mpc = "loop"
    /\ mi > Len(paragraphs)
    /\ mpc' = "returned"
    /\ UNCHANGED <<gvars, paragraphs, mapping, prev_mapping, runs, mi, svars, avars>>

Labels == {"SPEAKER_00", "SPEAKER_01", "SPEAKER_02"}
ParaPool == {[speaker |-> l, start |-> Num(0), end |-> Num(1), text |-> <<"a">>, words |-> 1] :
                l \in Labels}

InitMap ==
    /\ segments = <<>>
    /\ gap_seconds = 5
    /\ max_words = 2
    /\ progress = FALSE
    /\ i = 1
    /\ grouped = <<>>
    /\ current = <<>>
    /\ processed_words = 0
    /\ calls = <<>>
    /\ pc = "returned"
    /\ branch = "return"
    /\ members = <<>>
    /\ paragraphs \in SeqsUpTo(ParaPool, MaxParas)
    /\ mapping = <<>>
    /\ prev_mapping = <<>>
    /\ runs = 0
    /\ mi = 1
    /\ mpc = "idle"
    /\ seconds = 0
    /\ stamp = <<>>
    /\ spc = "idle"
    /\ audio_files = <<>>
    /\ overwrite = FALSE
    /\ format = "txt"
    /\ fs = <<>>
    /\ fi = 1
    /\ transcribed = <<>>
    /\ writes = <<>>
    /\ apc = "idle"

NextMap == MapCall \/ MapFor \/ MapReturn

SpecMap == InitMap /\ [][NextMap]_vars

\* ------------------------------------------- format_srt/vtt_timestamp

\* A time is an integer number of 1/Ticks seconds: a dyadic grid finer than a
\* millisecond, on which seconds - int(seconds) and its product with 1000 are
\* exact in float arithmetic.
Ticks == 2048

\* max(0.0, seconds)
ClampToZero(n) == IF n > 0 THEN n ELSE 0

\* int(seconds), for seconds >= 0
IntSeconds(n) == n \div Ticks

\* round(x) for x = num/den >= 0: to the nearest integer, a tie to the even one
RoundHalfEven(num, den) ==
    LET q == num \div den
        r == num % den
    IN  IF 2 * r < den THEN q
        ELSE IF 2 * r > den THEN q + 1
        ELSE IF q % 2 = 0 THEN q ELSE q + 1

\* lines 276, 286: int(round((seconds - int(seconds)) * 1000))
Millis(n) == RoundHalfEven((n - IntSeconds(n) * Ticks) * 1000, Ticks)

\* f"{n:0wd}": decimal digits, zero-padded on the left to width w
RECURSIVE ZeroPad(_, _)
ZeroPad(digits, w) == IF Len(digits) >= w THEN digits ELSE ZeroPad(<<"0">> \o digits, w)

\* lines 278-281, 288-291: the fields joined, sep before the milliseconds
StampFields(total_seconds, millis, sep) ==
    LET hours   == total_seconds \div 3600
        minutes == (total_seconds % 3600) \div 60
        secs    == total_seconds % 60
    IN  ZeroPad(Decimal(hours), 2) \o <<":">> \o ZeroPad(Decimal(minutes), 2) \o <<":">>
        \o ZeroPad(Decimal(secs), 2) \o <<sep>> \o ZeroPad(Decimal(millis), 3)

format_srt_timestamp(n) ==
    LET secs == ClampToZero(n)
    IN  StampFields(IntSeconds(secs), Millis(secs), ",")

format_vtt_timestamp(n) ==
    LET secs == ClampToZero(n)
    IN  StampFields(IntSeconds(secs), Millis(secs), ".")

\* write_srt (lines 526-527) formats a paragraph's time
FormatSrt ==
    /\ spc # "srt"
    /\ stamp' = format_srt_timestamp(seconds)
    /\ spc' = "srt"
    /\ UNCHANGED <<gvars, mvars, avars, seconds>>

\* write_vtt (lines 547-548) formats a paragraph's time
FormatVtt ==
    /\ spc # "vtt"
    /\ stamp' = format_vtt_timestamp(seconds)
    /\ spc' = "vtt"
    /\ UNCHANGED <<gvars, mvars, avars, seconds>>

\* Whole seconds around the minute and hour carries, each with every fraction
\* of the grid, and some negative times.
StampGrid ==
    {w * Ticks + k : w \in {0, 59, 125, 3599, 3600, 360000}, k \in 0..(Ticks - 1)}
        \cup {-1, -Ticks, -3 * Ticks - 410}

GroupDone ==
    /\ segments = <<>>
    /\ gap_seconds = 5
    /\ max_words = 2
    /\ progress = FALSE
    /\ i = 1
    /\ grouped = <<>>
    /\ current = <<>>
    /\ processed_words = 0
    /\ calls = <<>>
    /\ pc = "returned"
    /\ branch = "return"
    /\ members = <<>>

InitStamp ==
    /\ GroupDone
    /\ paragraphs = <<>>
    /\ mapping = <<>>
    /\ prev_mapping = <<>>
    /\ runs = 0
    /\ mi = 1
    /\ mpc = "idle"
    /\ seconds \in StampGrid
    /\ stamp = <<>>
    /\ spc = "idle"
    /\ audio_files = <<>>
    /\ overwrite = FALSE
    /\ format = "txt"
    /\ fs = <<>>
    /\ fi = 1
    /\ transcribed = <<>>
    /\ writes = <<>>
    /\ apc = "idle"

NextStamp == FormatSrt \/ FormatVtt

SpecStamp == InitStamp /\ [][NextStamp]_vars

\* ------------------------------------------------------------------ main

\* --format choices (line 156)
Formats == {"txt", "srt", "vtt"}

\* An audio path is <<stem, extension>>; audio_path.with_suffix(f".{format}")
\* (line 752) replaces the extension.
with_suffix(audio_path, fmt) == <<audio_path[1], fmt>>

\* The file system holds, per sidecar path, no file, a file from before the
\* run, or the document a writer of this run produced: <<kind, header, cues>>.
NoFile == <<"none">>

OldFile == <<"old">>

exists(path) == fs[path] # NoFile

\* line 753, mutated: the flag is not consulted
SkipsFile_IgnoresOverwrite(output_path) == exists(output_path)

\* line 753: output_path.exists() and not args.overwrite
SkipsFile(output_path) == exists(output_path) /\ ~overwrite

\* The frame of group_segments on entry (lines 410-412).
GroupEntry ==
    [i |-> 1, grouped |-> <<>>, current |-> <<>>, processed_words |-> 0, calls |-> <<>>,
     pc |-> "loop", branch |-> "none", members |-> <<>>]

\* One call of group_segments (line 762) run to its end: ForSeg for each
\* segment until one raises, and then Return.
RECURSIVE GroupRun(_, _, _, _, _)
GroupRun(fr, segs, gap, cap, cb) ==
    IF fr.i > Len(segs)
    THEN [fr EXCEPT !.grouped = Returned(Locals(fr.grouped, fr.current, fr.processed_words, fr.calls)),
                    !.pc = "returned",
                    !.branch = "return"]
    ELSE LET seg == segs[fr.i]
             b   == Branch(fr.current, seg, gap, cap)
             st  == LoopBody(Locals(fr.grouped, fr.current, fr.processed_words, fr.calls),
                             seg, gap, cap, cb)
         IN  IF b = "raise"
             THEN [fr EXCEPT !.branch = b, !.pc = "raised"]
             ELSE GroupRun([i |-> fr.i + 1, grouped |-> st.grouped, current |-> st.current,
                            processed_words |-> st.processed_words, calls |-> st.calls,
                            pc |-> "loop", branch |-> b,
                            members |-> MembersAfter(fr.members, b, fr.i)],
                           segs, gap, cap, cb)

\* line 762: group_segments raises where one of its float() calls does
GroupRaises(segs, gap, cap) == GroupRun(GroupEntry, segs, gap, cap, TRUE).pc = "raised"

\* lines 486-492: map_speakers as a function of its argument
RECURSIVE MapFrom(_, _)
MapFrom(m, paras) == IF paras = <<>> THEN m ELSE MapFrom(MapBody(m, Head(paras)), Tail(paras))

map_speakers(paras) == MapFrom(<<>>, paras)

\* lines 511, 528, 549: speaker_map.get(para["speaker"], para["speaker"])
SpeakerOf(m, label) ==
    IF HasKey(m, label) THEN m[CHOOSE k \in 1..Len(m) : m[k][1] = label][2] ELSE <<label>>

\* line 267: round(seconds) raises ValueError on nan, OverflowError on an infinity
RoundRaises(v) == v \in {NaN, PosInf, NegInf}

\* lines 266-271 on a finite time of v[2] half seconds: round to the nearest
\* second, a tie to the even one, and not below zero
format_timestamp(v) ==
    LET total_seconds == IF v[2] > 0 THEN RoundHalfEven(v[2], 2) ELSE 0
        hours   == total_seconds \div 3600
        minutes == (total_seconds % 3600) \div 60
        secs    == total_seconds % 60
    IN  ZeroPad(Decimal(hours), 2) \o <<":">> \o ZeroPad(Decimal(minutes), 2) \o <<":">>
        \o ZeroPad(Decimal(secs), 2)

\* lines 275-276, 285-286: max(0.0, seconds) turns nan and -inf into 0.0 and
\* keeps +inf, on which int(seconds) raises OverflowError
IntRaises(v) == v = PosInf

\* A paragraph's time on the formatters' grid, after max(0.0, seconds).
InTicks(v) == IF v[1] = "num" THEN v[2] * (Ticks \div 2) ELSE 0

\* line 510
TxtRaises(paras) == \E k \in 1..Len(paras) : RoundRaises(paras[k].start)

\* lines 526-527
SrtRaises(paras) == \E k \in 1..Len(paras) : IntRaises(paras[k].start) \/ IntRaises(paras[k].end)

\* lines 547-548
VttRaises(paras) == \E k \in 1..Len(paras) : IntRaises(paras[k].start) \/ IntRaises(paras[k].end)

\* lines 509-514: per paragraph the time stamp, the speaker's name, the text
TxtCues(paras) ==
    LET speaker_map == map_speakers(paras)
    IN  [k \in 1..Len(paras) |->
            <<format_timestamp(paras[k].start), SpeakerOf(speaker_map, paras[k].speaker),
              paras[k].text>>]

\* lines 525-532: per paragraph its number, start, end, speaker's name, text
SrtCues(paras) ==
    LET speaker_map == map_speakers(paras)
    IN  [k \in 1..Len(paras) |->
            <<Decimal(k), format_srt_timestamp(InTicks(paras[k].start)),
              format_srt_timestamp(InTicks(paras[k].end)),
              SpeakerOf(speaker_map, paras[k].speaker), paras[k].text>>]

\* lines 546-552: per paragraph its start, end, speaker's name, text
VttCues(paras) ==
    LET speaker_map == map_speakers(paras)
    IN  [k \in 1..Len(paras) |->
            <<format_vtt_timestamp(InTicks(paras[k].start)),
              format_vtt_timestamp(InTicks(paras[k].end)),
              SpeakerOf(speaker_map, paras[k].speaker), paras[k].text>>]

\* lines 495-516: the lines are built first and written last, so a formatter
\* that raises leaves the file system as it was.  The header names the audio
\* file; the metadata lines are left out.
write_txt(output_path, audio_path, paras) ==
    IF TxtRaises(paras) THEN fs
    ELSE [fs EXCEPT ![output_path] = <<"txt", audio_path, TxtCues(paras)>>]

\* lines 519-533
write_srt(output_path, paras) ==
    IF SrtRaises(paras) THEN fs
    ELSE [fs EXCEPT ![output_path] = <<"srt", <<>>, SrtCues(paras)>>]

\* lines 536-553: the header is the WEBVTT line; the metadata notes are left out
write_vtt(output_path, paras) ==
    IF VttRaises(paras) THEN fs
    ELSE [fs EXCEPT ![output_path] = <<"vtt", <<"WEBVTT">>, VttCues(paras)>>]

\* The frames of group_segments, map_speakers and the formatters, which only
\* the step that calls them changes.
frames == <<i, grouped, current, processed_words, calls, pc, branch, members,
            mapping, prev_mapping, runs, mi, mpc, svars>>

\* What main leaves alone once it has parsed its arguments.
args == <<gap_seconds, max_words, progress, audio_files, overwrite, format>>

AtFile == apc = "loop" /\ fi <= Len(audio_files)

\* lines 753-756: the sidecar exists and overwrite is not set; continue
MainSkip ==
    /\ AtFile
    /\ SkipsFile(with_suffix(audio_files[fi], format))
    /\ fi' = fi + 1
    /\ UNCHANGED <<frames, args, segments, paragraphs, fs, transcribed, writes, apc>>

\* What the aligner returns as result["segments"] for a file: two speakers'
\* speech, nothing, and segments whose start is infinite, not a number, or a
\* string float() rejects.
ResultPool ==
    { << Segment(OneWord, "SPEAKER_00", Num(0), Num(1)),
         Segment(TwoWords, "SPEAKER_01", Num(3), Num(7)) >>,
      <<>>,
      << Segment(OneWord, Absent, PosInf, PosInf) >>,
      << Segment(OneWord, Absent, NaN, Num(1)) >>,
      << Segment(OneWord, Absent, Num(1), Num(2)), Segment(OneWord, Absent, BadStr, Num(3)) >> }

\* line 759: transcribe_audio returns its result
MainTranscribe ==
    /\ AtFile
    /\ ~SkipsFile(with_suffix(audio_files[fi], format))
    /\ segments' \in ResultPool
    /\ transcribed' = Append(transcribed, audio_files[fi])
    /\ apc' = "write"
    /\ UNCHANGED <<frames, args, paragraphs, fs, fi, writes>>

\* line 759: transcribe_audio raises SystemExit (lines 560, 670, 675, 702)
MainTranscribeRaises ==
    /\ AtFile
    /\ ~SkipsFile(with_suffix(audio_files[fi], format))
    /\ apc' = "raised"
    /\ UNCHANGED <<frames, args, segments, paragraphs, fs, fi, transcribed, writes>>

\* lines 771-778: whether the writer the format selects raises
DispatchRaises(paras) ==
    IF format = "txt" THEN TxtRaises(paras)
    ELSE IF format = "srt" THEN SrtRaises(paras)
    ELSE IF format = "vtt" THEN VttRaises(paras)
    ELSE TRUE

\* lines 771-778: the file system the writer the format selects leaves
Dispatch(output_path, audio_path, paras) ==
    IF format = "txt" THEN write_txt(output_path, audio_path, paras)
    ELSE IF format = "srt" THEN write_srt(output_path, paras)
    ELSE IF format = "vtt" THEN write_vtt(output_path, paras)
    ELSE fs

\* lines 771-776: the writer called
Writer == IF format = "txt" THEN "write_txt" ELSE IF format = "srt" THEN "write_srt" ELSE "write_vtt"

\* lines 501, 523, 541: the writer calls map_speakers, which runs to its return
MapCalled(paras) ==
    /\ prev_mapping' = mapping
    /\ mapping' = map_speakers(paras)
    /\ mi' = Len(paras) + 1
    /\ runs' = runs + 1
    /\ mpc' = "returned"

\* lines 526-527, 547-548: the times the subtitle writers format, in order:
\* each paragraph's start, then its end
CueTimes(paras) ==
    [k \in 1..(2 * Len(paras)) |->
        IF k % 2 = 1 THEN paras[(k + 1) \div 2].start ELSE paras[k \div 2].end]

\* How many of these calls return before one raises.
RECURSIVE ReturnedCalls(_)
ReturnedCalls(times) ==
    IF times = <<>> \/ IntRaises(Head(times)) THEN 0 ELSE 1 + ReturnedCalls(Tail(times))

\* The formatter frame the writer leaves: that of the last call of
\* format_srt_timestamp or format_vtt_timestamp that returned, with seconds
\* as line 275 leaves it for a nan or -inf.  write_txt calls neither.
Formatted(paras) ==
    LET times == CueTimes(paras)
        n     == ReturnedCalls(times)
    IN  IF format \in {"srt", "vtt"} /\ n > 0
        THEN /\ seconds' = InTicks(times[n])
             /\ stamp' = IF format = "srt" THEN format_srt_timestamp(InTicks(times[n]))
                         ELSE format_vtt_timestamp(InTicks(times[n]))
             /\ spc' = format
        ELSE UNCHANGED svars

\* line 760: sum(word_count(clean_text(seg.get("text", ""))) for seg in ...),
\* which WordProgress keeps as max(0, total_words) (line 467)
RECURSIVE TotalWords(_)
TotalWords(segs) ==
    IF segs = <<>> THEN 0 ELSE word_count(SegText(Head(segs))) + TotalWords(Tail(segs))

\* lines 760-780: count the words, group with the progress callback, let
\* progress.finish() hand the callback the total once more (lines 768,
\* 482-483), dispatch on the format, write, next file; an exception from
\* group_segments or from the writer ends the run with nothing written
MainWrite ==
    /\ apc = "write"
    /\ LET audio_path  == audio_files[fi]
           output_path == with_suffix(audio_path, format)
           run         == GroupRun(GroupEntry, segments, gap_seconds, max_words, progress)
           total_words == TotalWords(segments)
       IN  /\ i' = run.i
           /\ grouped' = run.grouped
           /\ current' = run.current
           /\ processed_words' = run.processed_words
           /\ calls' = IF run.pc = "raised" THEN run.calls ELSE Append(run.calls, total_words)
           /\ pc' = run.pc
           /\ branch' = run.branch
           /\ members' = run.members
           /\ IF run.pc = "raised" \/ format \notin Formats
              THEN /\ apc' = "raised"
                   /\ paragraphs' = IF run.pc = "raised" THEN paragraphs ELSE run.grouped
                   /\ UNCHANGED <<mapping, prev_mapping, runs, mi, mpc, svars, fs, writes, fi>>
              ELSE /\ paragraphs' = run.grouped
                   /\ MapCalled(run.grouped)
                   /\ Formatted(run.grouped)
                   /\ IF DispatchRaises(run.grouped)
                      THEN /\ apc' = "raised"
                           /\ UNCHANGED <<fs, writes, fi>>
                      ELSE /\ fs' = Dispatch(output_path, audio_path, run.grouped)
                           /\ writes' = Append(writes, <<Writer, output_path, audio_path>>)
                           /\ fi' = fi + 1
                           /\ apc' = "loop"
    /\ UNCHANGED <<args, segments, transcribed>>

\* lines 746-748 and 782: no files found, or the loop is exhausted
MainReturn ==
    /\ apc = "loop"
    /\ fi > Len(audio_files)
    /\ apc' = IF audio_files = <<>> THEN "no_files" ELSE "returned"
    /\ UNCHANGED <<frames, args, segments, paragraphs, fs, fi, transcribed, writes>>

\* resolve_audio_files returns sorted(set(files)): a sorted list of distinct
\* paths. The first two share their sidecar path.
AudioPool == << <<"a", "m4a">>, <<"a", "mp3">>, <<"b", "mp3">> >>

RECURSIVE Sublist(_, _)
Sublist(S, n) ==
    IF n = 0 THEN <<>>
    ELSE IF n \in S THEN Append(Sublist(S, n - 1), AudioPool[n]) ELSE Sublist(S, n - 1)

SidecarPaths == {<<stem, fmt>> : stem \in {"a", "b"}, fmt \in Formats}

\* main after parse_args and resolve_audio_files: the default gap of 2.5 s, a
\* cap of two words, the progress callback passed
InitMain ==
    /\ segments = <<>>
    /\ gap_seconds = 5
    /\ max_words = 2
    /\ progress = TRUE
    /\ i = 1
    /\ grouped = <<>>
    /\ current = <<>>
    /\ processed_words = 0
    /\ calls = <<>>
    /\ pc = "returned"
    /\ branch = "return"
    /\ members = <<>>
    /\ paragraphs = <<>>
    /\ mapping = <<>>
    /\ prev_mapping = <<>>
    /\ runs = 0
    /\ mi = 1
    /\ mpc = "idle"
    /\ seconds = 0
    /\ stamp = <<>>
    /\ spc = "idle"
    /\ audio_files \in {Sublist(S, Len(AudioPool)) : S \in SUBSET (1..Len(AudioPool))}
    /\ overwrite \in BOOLEAN
    /\ format \in Formats
    /\ fs \in [SidecarPaths -> {NoFile, OldFile}]
    /\ fi = 1
    /\ transcribed = <<>>
    /\ writes = <<>>
    /\ apc = "loop"

NextMain == MainSkip \/ MainTranscribe \/ MainTranscribeRaises \/ MainWrite \/ MainReturn

SpecMain == InitMain /\ [][NextMain]_vars

\* ================================================================== claims

\* The paragraphs opened so far, closed or still open.
Paras == IF pc = "loop" THEN grouped \o current ELSE grouped

NonEmptyAt(k) == SegText(segments[k]) # <<>>

\* The indices below n of the segments with text left after cleaning, ascending.
RECURSIVE NonEmptyIdx(_)
NonEmptyIdx(n) ==
    IF n = 0 THEN <<>>
    ELSE IF NonEmptyAt(n) THEN Append(NonEmptyIdx(n - 1), n) ELSE NonEmptyIdx(n - 1)

RECURSIVE Flatten(_)
Flatten(ss) == IF ss = <<>> THEN <<>> ELSE Head(ss) \o Flatten(Tail(ss))

\* " ".join(texts)
RECURSIVE JoinSp(_)
JoinSp(texts) ==
    IF texts = <<>> THEN <<>>
    ELSE IF Len(texts) = 1 THEN texts[1]
    ELSE texts[1] \o <<SP>> \o JoinSp(Tail(texts))

CleanedOf(idx) == [k \in 1..Len(idx) |-> SegText(segments[idx[k]])]

\* C1: every segment with text left after cleaning goes into exactly one
\* paragraph: the paragraphs, in order, partition the non-empty segments in
\* arrival order, each paragraph's text is the space-joined cleaned texts of its
\* segments, and so the paragraphs' texts joined are the cleaned texts joined;
\* this holds after every iteration (with the open paragraph counted) and of
\* the list returned.
C1_EverySegmentInOneParagraph ==
    pc # "raised" =>
        /\ Len(members) = Len(Paras)
        /\ Flatten(members) = NonEmptyIdx(i - 1)
        /\ \A k \in 1..Len(Paras) : Paras[k].text = JoinSp(CleanedOf(members[k]))
        /\ JoinSp([k \in 1..Len(Paras) |-> Paras[k].text])
              = JoinSp(CleanedOf(NonEmptyIdx(i - 1)))

\* C1 witness: a list of two paragraphs was returned, the first made of two
\* segments, the second still open when the input ended.
C1_Witness ==
    /\ pc = "returned"
    /\ Len(grouped) = 2
    /\ Len(members[1]) = 2
    /\ current # <<>>
    /\ Len(segments) = 3
    /\ Len(NonEmptyIdx(3)) = 3

\* An iteration that finds an open paragraph whose speaker differs from the
\* segment's closes that paragraph unchanged and opens a new one from the segment.
C2_SpeakerStep ==
    (/\ pc = "loop" /\ i <= Len(segments) /\ NonEmptyAt(i)
     /\ current # <<>>
     /\ current[1].speaker #
           (IF segments[i].speaker \in {Absent, ""} THEN "SPEAKER_00" ELSE segments[i].speaker))
    => /\ grouped' = Append(grouped, current[1])
       /\ current'[1].text = SegText(segments[i])
       /\ current'[1].speaker # current[1].speaker

\* All the segments of a paragraph carry the paragraph's speaker.
C2_OneSpeakerPerParagraph ==
    \A k \in 1..Len(members) : \A j \in 1..Len(members[k]) :
        LET sp == segments[members[k][j]].speaker
        IN  k <= Len(Paras) =>
               Paras[k].speaker = (IF sp \in {Absent, ""} THEN "SPEAKER_00" ELSE sp)

\* C2: a segment is never merged into a paragraph of another speaker, the
\* absent label counting as "SPEAKER_00": an iteration that finds an open
\* paragraph whose speaker differs from the segment's closes that paragraph
\* unchanged and opens a new one from the segment, whatever the gap and the
\* word count; and at every moment all the segments of a paragraph carry the
\* paragraph's speaker.
C2_SpeakerChangeBreaks == [][C2_SpeakerStep]_vars /\ []C2_OneSpeakerPerParagraph

\* C2 witness: a segment labelled "SPEAKER_01" arrived within the gap of an
\* unlabelled one-word paragraph below the cap, and opened the second paragraph.
C2_Witness ==
    /\ pc = "loop" /\ i = 3 /\ branch = "break"
    /\ Len(grouped) = 1 /\ grouped[1].words < max_words
    /\ grouped[1].speaker = "SPEAKER_00"
    /\ segments[1].speaker = Absent /\ segments[2].speaker = "SPEAKER_01"
    /\ segments[2].start = Num(0) /\ grouped[1].end = Num(1)
    /\ current[1].speaker = "SPEAKER_01"

\* What an iteration on a non-empty segment does to the paragraphs, read off
\* the locals before and after it.
StartsNewParagraph ==
    /\ grouped' = Append(grouped, current[1])
    /\ current'[1].text = SegText(segments[i])
    /\ current'[1].start = segments[i].start

MergesIntoOpen ==
    /\ grouped' = grouped
    /\ current'[1].text = current[1].text \o <<SP>> \o SegText(segments[i])
    /\ current'[1].start = current[1].start

SameSpeakerAsOpen ==
    current[1].speaker =
        (IF segments[i].speaker \in {Absent, ""} THEN "SPEAKER_00" ELSE segments[i].speaker)

AtNonEmptySegment == pc = "loop" /\ i <= Len(segments) /\ NonEmptyAt(i)

\* The step of C3: break at a gap of gap_seconds or more, merge below it.
C3_Step ==
    (/\ AtNonEmptySegment /\ current # <<>>
     /\ SameSpeakerAsOpen
     /\ current[1].words < max_words)
    => IF segments[i].start[2] - current[1].end[2] >= gap_seconds
       THEN StartsNewParagraph /\ ~MergesIntoOpen
       ELSE MergesIntoOpen /\ ~StartsNewParagraph

\* C3: with the same speaker and an open paragraph below max_words, the
\* segment starts a new paragraph if segment.start - paragraph.end >=
\* gap_seconds and is merged otherwise; a gap equal to gap_seconds breaks.
C3_GapThreshold == [][C3_Step]_vars

\* C3 witness: three segments of one speaker; the second started exactly
\* gap_seconds after the first ended and opened a new paragraph, the third
\* started one half second short of gap_seconds after the second ended and was
\* merged.
C3_Witness ==
    /\ pc = "loop" /\ i = 4 /\ branch = "merge"
    /\ members = << <<1>>, <<2, 3>> >>
    /\ grouped[1].speaker = current[1].speaker
    /\ grouped[1].words < max_words
    /\ segments[2].start[2] - segments[1].end[2] = gap_seconds
    /\ segments[3].start[2] - segments[2].end[2] = gap_seconds - 1

\* A paragraph at or above max_words is closed by the next non-empty segment;
\* a segment is merged only into a paragraph below max_words.
C4_CapStep ==
    /\ (AtNonEmptySegment /\ current # <<>> /\ current[1].words >= max_words)
          => StartsNewParagraph
    /\ (AtNonEmptySegment /\ current # <<>> /\ MergesIntoOpen)
          => current[1].words < max_words

\* A returned paragraph's word count is that of its text, and at most
\* max_words + (words of its last segment) - 1.
C4_WordsWithinBound ==
    \A k \in 1..Len(grouped) :
        pc = "returned" =>
            LET last == members[k][Len(members[k])]
            IN  /\ grouped[k].words = word_count(grouped[k].text)
                /\ grouped[k].words <= max_words + word_count(SegText(segments[last])) - 1

\* C4 (as stated): once the open paragraph has max_words words or more the next
\* non-empty segment starts a new paragraph whatever its speaker and gap, a
\* segment is merged only into a paragraph below max_words, and a returned
\* paragraph has at most max_words + (words of its last segment) - 1 words.
C4_AsStated == [][C4_CapStep]_vars /\ []C4_WordsWithinBound

\* C4 (amended): the same, the bound on a returned paragraph's words being
\* claimed for max_words >= 1 only.
C4_WordCap == [][C4_CapStep]_vars /\ [](max_words >= 1 => C4_WordsWithinBound)

\* C4 witness: with max_words = 2 a one-word and a two-word segment were
\* merged into a paragraph of 3 = 2 + 2 - 1 words, and the next segment, of the
\* same speaker and within the gap, opened the second paragraph.
C4_Witness ==
    /\ pc = "returned"
    /\ max_words = 2
    /\ members = << <<1, 2>>, <<3>> >>
    /\ grouped[1].words = 3
    /\ grouped[2].speaker = grouped[1].speaker
    /\ segments[3].start = Num(0) /\ grouped[1].end = Num(1)

\* The input with the segments that have no text after cleaning removed.
RECURSIVE WithoutEmpty(_)
WithoutEmpty(segs) ==
    IF segs = <<>> THEN <<>>
    ELSE IF SegText(Head(segs)) = <<>> THEN WithoutEmpty(Tail(segs))
    ELSE <<Head(segs)>> \o WithoutEmpty(Tail(segs))

\* An iteration on a segment with no text after cleaning changes no local.
C5_EmptyStep ==
    (pc = "loop" /\ i <= Len(segments) /\ ~NonEmptyAt(i))
    => /\ UNCHANGED <<grouped, current, processed_words, calls>>
       /\ pc' = "loop" /\ i' = i + 1

\* The list returned is the one returned for the input without such segments.
C5_SameAsWithoutEmpty ==
    pc = "returned" =>
        grouped = group_segments(WithoutEmpty(segments), gap_seconds, max_words)

\* C5: an iteration on a segment with no text after cleaning leaves the open
\* paragraph, the closed paragraphs, the word total and the callback's calls as
\* they were and goes on to the next segment; and the list returned is the one
\* group_segments returns for the input without those segments.
C5_EmptySegmentsAreNoOps == [][C5_EmptyStep]_vars /\ []C5_SameAsWithoutEmpty

\* C5 witness: a segment with no text stood between two segments of one
\* speaker within the gap, and the two were merged into the one paragraph
\* returned, the callback having been called twice.
C5_Witness ==
    /\ pc = "returned"
    /\ Len(segments) = 3 /\ ~NonEmptyAt(2)
    /\ members = << <<1, 3>> >>
    /\ Len(grouped) = 1 /\ grouped[1].words = 2
    /\ Len(calls) = 2

\* The paragraphs' starts and ends are those of their first and last segments.
SpansItsSegments(k) ==
    /\ grouped[k].start = segments[members[k][1]].start
    /\ grouped[k].end = segments[members[k][Len(members[k])]].end

\* Every non-empty segment ends no earlier than it starts, and none starts
\* earlier than a non-empty segment before it.
StartsNonDecreasing ==
    \A a, b \in 1..Len(segments) :
        (a < b /\ NonEmptyAt(a) /\ NonEmptyAt(b)) => segments[a].start[2] <= segments[b].start[2]

WellTimed ==
    /\ \A k \in 1..Len(segments) :
          NonEmptyAt(k) => segments[k].end[2] >= segments[k].start[2]
    /\ StartsNonDecreasing

\* C6 (as stated): every paragraph returned has end >= start, whatever the
\* segments' own starts and ends.
C6_AsStated ==
    pc = "returned" => \A k \in 1..Len(grouped) : grouped[k].end[2] >= grouped[k].start[2]

\* C6 (amended): a paragraph returned starts where its first segment starts and
\* ends where its last segment ends; so it has end >= start when every
\* non-empty segment has end >= start and the non-empty segments' starts are
\* non-decreasing.
C6_EndAfterStart ==
    pc = "returned" =>
        /\ \A k \in 1..Len(grouped) : SpansItsSegments(k)
        /\ WellTimed => \A k \in 1..Len(grouped) : grouped[k].end[2] >= grouped[k].start[2]

\* C6 witness: a well-timed input of three segments was returned as a
\* paragraph of two segments, which ends after it starts, and a second one.
C6_Witness ==
    /\ pc = "returned" /\ WellTimed
    /\ members = << <<1, 2>>, <<3>> >>
    /\ grouped[1].end[2] > grouped[1].start[2]
    /\ segments[1].end # segments[2].end

\* C8: the paragraphs returned are in the order of their first segments and
\* take their start and speaker from them; when the segments' starts are
\* non-decreasing, so are the paragraphs' starts.
C8_ParagraphOrder ==
    pc = "returned" =>
        /\ Len(members) = Len(grouped)
        /\ \A k \in 1..Len(grouped) :
              LET first == segments[members[k][1]]
              IN  /\ grouped[k].start = first.start
                  /\ grouped[k].speaker =
                        (IF first.speaker \in {Absent, ""} THEN "SPEAKER_00" ELSE first.speaker)
        /\ \A k \in 1..(Len(grouped) - 1) : members[k][1] < members[k + 1][1]
        /\ StartsNonDecreasing =>
              \A k \in 1..(Len(grouped) - 1) : grouped[k].start[2] <= grouped[k + 1].start[2]

\* C8 witness: three segments with increasing starts were returned as three
\* paragraphs with increasing starts.
C8_Witness ==
    /\ pc = "returned" /\ StartsNonDecreasing
    /\ Len(grouped) = 3
    /\ grouped[1].start[2] < grouped[2].start[2]
    /\ grouped[2].start[2] < grouped[3].start[2]

\* The number of segments with text left after cleaning.
NonEmptyCount == Cardinality({k \in 1..Len(segments) : NonEmptyAt(k)})

\* C9: group_segments returns at most as many paragraphs as there are segments
\* with text left after cleaning, none exactly when there is no such segment,
\* and it does not fail on segments without text.
C9_ParagraphCount ==
    /\ pc # "raised"
    /\ pc = "returned" =>
          /\ Len(grouped) <= NonEmptyCount
          /\ Len(grouped) = 0 <=> NonEmptyCount = 0

\* C9 witness: an input of three segments, all without text, returned no
\* paragraph.
C9_Witness ==
    /\ pc = "returned"
    /\ Len(segments) = 3 /\ NonEmptyCount = 0
    /\ grouped = <<>>

\* A timing field that is absent, negative or not finite.
Malformed(v) ==
    \/ v \in {AbsentNum, NaN, PosInf, NegInf}
    \/ (v[1] = "num" /\ v[2] < 0)

\* C7 (as stated): group_segments returns no list when a non-empty segment's
\* start or end is absent, negative or not finite.
C7_AsStated ==
    pc = "returned" =>
        \A k \in 1..Len(segments) :
            NonEmptyAt(k) => ~Malformed(segments[k].start) /\ ~Malformed(segments[k].end)

\* The start and end a segment gives a paragraph: its own, 0.0 for an absent
\* start, the start for an absent end.
ExpectedStart(seg) == IF seg.start = AbsentNum THEN Num(0) ELSE seg.start

ExpectedEnd(seg) ==
    IF seg.end # AbsentNum THEN seg.end
    ELSE IF seg.start = AbsentNum THEN Num(0) ELSE seg.start

\* C7 (amended): group_segments does not validate the timing fields.  It fails
\* only at a non-empty segment with a start or end that float() cannot convert;
\* otherwise it returns, and each paragraph starts at its first segment's
\* start, 0.0 if that is absent, and ends at its last segment's end, that
\* segment's start (0.0 if absent) if it is absent: negative and non-finite
\* values are carried into the paragraph as they are.
C7_TimingIsNotValidated ==
    /\ pc = "raised" =>
          /\ NonEmptyAt(i)
          /\ BadStr \in {segments[i].start, segments[i].end}
    /\ pc = "returned" =>
          /\ \A k \in 1..Len(segments) :
                NonEmptyAt(k) => BadStr \notin {segments[k].start, segments[k].end}
          /\ Len(members) = Len(grouped)
          /\ \A k \in 1..Len(grouped) :
                /\ grouped[k].start = ExpectedStart(segments[members[k][1]])
                /\ grouped[k].end = ExpectedEnd(segments[members[k][Len(members[k])]])

\* C7 witness: a list was returned whose first paragraph starts at 0.0 for a
\* segment without start and ends at 1.0 where a segment without end starts,
\* and whose second paragraph has a negative or non-finite end.
C7_Witness ==
    /\ pc = "returned"
    /\ members = << <<1, 2>>, <<3>> >>
    /\ segments[1].start = AbsentNum /\ grouped[1].start = Num(0)
    /\ segments[2] = Segment(OneWord, Absent, Num(1), AbsentNum)
    /\ grouped[1].end = Num(1)
    /\ Malformed(grouped[2].end)

\* The distinct labels of the paragraphs, in the order of their first appearance.
IsFirstAppearance(k) == \A j \in 1..(k - 1) : paragraphs[j].speaker # paragraphs[k].speaker

RECURSIVE FirstAppearances(_)
FirstAppearances(n) ==
    IF n = 0 THEN <<>>
    ELSE IF IsFirstAppearance(n) THEN Append(FirstAppearances(n - 1), paragraphs[n].speaker)
    ELSE FirstAppearances(n - 1)

\* "Speaker k" for k in 1..9, written out.
ExpectedName(k) ==
    <<"S", "p", "e", "a", "k", "e", "r", " ",
      <<"1", "2", "3", "4", "5", "6", "7", "8", "9">>[k]>>

\* C10: map_speakers names the labels in the order of their first appearance:
\* the k-th distinct label met is mapped to "Speaker k", the dict's keys are
\* exactly the labels of the paragraphs, no two labels share a name, and a
\* second call on the same paragraphs returns the same dict.
C10_FirstAppearanceOrder ==
    mpc = "returned" =>
        LET firsts == FirstAppearances(Len(paragraphs))
        IN  /\ Len(mapping) = Len(firsts)
            /\ \A k \in 1..Len(mapping) : mapping[k] = <<firsts[k], ExpectedName(k)>>
            /\ {mapping[k][1] : k \in 1..Len(mapping)}
                  = {paragraphs[k].speaker : k \in 1..Len(paragraphs)}
            /\ \A a, b \in 1..Len(mapping) :
                  a # b => mapping[a][1] # mapping[b][1] /\ mapping[a][2] # mapping[b][2]
            /\ runs >= 2 => mapping = prev_mapping

\* C10 witness: on paragraphs of SPEAKER_02, SPEAKER_00, SPEAKER_02, SPEAKER_01
\* the second call returned SPEAKER_02 as "Speaker 1", SPEAKER_00 as
\* "Speaker 2" and SPEAKER_01 as "Speaker 3".
C10_Witness ==
    /\ mpc = "returned" /\ runs = 2
    /\ Len(paragraphs) = 4
    /\ [k \in 1..4 |-> paragraphs[k].speaker]
          = <<"SPEAKER_02", "SPEAKER_00", "SPEAKER_02", "SPEAKER_01">>
    /\ [k \in 1..Len(mapping) |-> mapping[k][1]] = <<"SPEAKER_02", "SPEAKER_00", "SPEAKER_01">>
    /\ mapping[3][2] = <<"S", "p", "e", "a", "k", "e", "r", " ", "3">>

\* The words of the first n segments of idx, counted on their cleaned texts.
RECURSIVE WordsUpTo(_, _)
WordsUpTo(idx, n) ==
    IF n = 0 THEN 0
    ELSE WordsUpTo(idx, n - 1) + Len(Split(clean_text(
            IF segments[idx[n]].text = AbsentText THEN <<>> ELSE segments[idx[n]].text)))

\* C12: a progress callback is called once per non-empty segment, in arrival
\* order, with the running sums of the non-empty segments' word counts: the
\* values increase strictly, and the last one received before the return is
\* the word total of all the non-empty segments, whichever of opening,
\* extending or breaking a paragraph each segment did.
C12_ProgressCalls ==
    (progress /\ pc # "raised") =>
        LET idx == NonEmptyIdx(i - 1)
        IN  /\ Len(calls) = Len(idx)
            /\ \A k \in 1..Len(calls) : calls[k] = WordsUpTo(idx, k)
            /\ \A k \in 1..(Len(calls) - 1) : calls[k] < calls[k + 1]
            /\ processed_words = WordsUpTo(idx, Len(idx))
            /\ (pc = "returned" /\ calls # <<>>) =>
                  calls[Len(calls)] = WordsUpTo(NonEmptyIdx(Len(segments)),
                                                Len(NonEmptyIdx(Len(segments))))

\* C12 witness: of three segments the first opened a paragraph, the second
\* extended it and the third broke it, and the callback received 1, 3 and 4.
C12_Witness ==
    /\ pc = "returned" /\ progress
    /\ members = << <<1, 2>>, <<3>> >>
    /\ calls = <<1, 3, 4>>

\* An iteration that merges its segment into the open paragraph.
MergeStep == AtNonEmptySegment /\ current # <<>> /\ MergesIntoOpen

\* No non-empty segment ends earlier than a non-empty segment before it.
EndsNonDecreasing ==
    \A a, b \in 1..Len(segments) :
        (a < b /\ NonEmptyAt(a) /\ NonEmptyAt(b)) => segments[a].end[2] <= segments[b].end[2]

\* C13 (as stated): whenever a segment is merged into the open paragraph, the
\* paragraph's end after the merge is at least its end before the merge.
C13_AsStated == [][MergeStep => current'[1].end[2] >= current[1].end[2]]_vars

\* C13 (amended): a merge sets the open paragraph's end to the merged
\* segment's end; so the end does not decrease on a merge when the non-empty
\* segments' ends are non-decreasing in arrival order.
C13_EndFollowsSegment ==
    [][MergeStep =>
          /\ current'[1].end = segments[i].end
          /\ EndsNonDecreasing => current'[1].end[2] >= current[1].end[2]]_vars

\* C13 witness: with ends non-decreasing, the second segment was merged into
\* the first one's paragraph and moved its end forward.
C13_Witness ==
    /\ pc = "loop" /\ i = 3 /\ branch = "merge"
    /\ EndsNonDecreasing
    /\ members = << <<1, 2>> >>
    /\ current[1].end[2] > segments[1].end[2]

\* The millisecond counts nearest to max(0, seconds): one, or two at a tie.
NearestMillis(n) ==
    LET c == ClampToZero(n)
        lo == (c * 1000) \div Ticks
    IN  {T \in {lo, lo + 1} :
            2 * (IF T * Ticks >= c * 1000 THEN T * Ticks - c * 1000 ELSE c * 1000 - T * Ticks)
                <= Ticks}

\* HH:MM:SS<sep>mmm for a count T of milliseconds, mmm in 000..999.
TwoDigits(n) == IF n < 10 THEN <<"0">> \o Decimal(n) ELSE Decimal(n)

ThreeDigits(n) ==
    IF n < 10 THEN <<"0", "0">> \o Decimal(n)
    ELSE IF n < 100 THEN <<"0">> \o Decimal(n) ELSE Decimal(n)

StampOfMillis(T, sep) ==
    TwoDigits(T \div 3600000) \o <<":">> \o TwoDigits((T \div 60000) % 60) \o <<":">>
    \o TwoDigits((T \div 1000) % 60) \o <<sep>> \o ThreeDigits(T % 1000)

\* C11: format_srt_timestamp and format_vtt_timestamp return HH:MM:SS, the
\* separator ("," or ".") and three millisecond digits that together denote
\* max(0, t) rounded to the nearest millisecond, a fraction that rounds up to a
\* full second carrying into the seconds field.
C11_AsStated ==
    /\ spc = "srt" => stamp \in {StampOfMillis(T, ",") : T \in NearestMillis(seconds)}
    /\ spc = "vtt" => stamp \in {StampOfMillis(T, ".") : T \in NearestMillis(seconds)}

\* Number of positions of a sequence holding x.
RECURSIVE CountIn(_, _)
CountIn(sq, x) == IF sq = <<>> THEN 0 ELSE (IF Head(sq) = x THEN 1 ELSE 0) + CountIn(Tail(sq), x)

WritesFor(audio_path) == {k \in 1..Len(writes) : writes[k][3] = audio_path}

SidecarOf(audio_path) == <<audio_path[1], format>>

WriterOf(fmt) == CASE fmt = "txt" -> "write_txt" [] fmt = "srt" -> "write_srt" [] fmt = "vtt" -> "write_vtt"

ReachesFile == apc = "loop" /\ fi <= Len(audio_files)

SidecarThere == fs[SidecarOf(audio_files[fi])] # <<"none">>

\* A reached file with an existing sidecar and no overwrite is left alone and
\* the loop moves on.
C14_SkipStep ==
    (ReachesFile /\ SidecarThere /\ ~overwrite) =>
        /\ transcribed' = transcribed
        /\ writes' = writes
        /\ fs' = fs
        /\ fi' = fi + 1
        /\ apc' = "loop"

\* A timing value that is a finite number, or absent.
FiniteTime(v) == v = <<"absent", 0>> \/ v[1] = "num"

\* The transcription result holds only such timing values.
FiniteResult ==
    \A k \in 1..Len(segments) : FiniteTime(segments[k].start) /\ FiniteTime(segments[k].end)

\* The step that writes the file in progress: one write by the selected
\* format's writer, a document of that format at the file's own sidecar path,
\* nothing else touched, and the loop at the next file.
C14_Written ==
    /\ transcribed' = transcribed
    /\ writes' = Append(writes, <<WriterOf(format), SidecarOf(audio_files[fi]), audio_files[fi]>>)
    /\ fs'[SidecarOf(audio_files[fi])][1] = format
    /\ \A q \in DOMAIN fs : q # SidecarOf(audio_files[fi]) => fs'[q] = fs[q]
    /\ fi' = fi + 1
    /\ apc' = "loop"

\* The step that ends the run at the file in progress: nothing transcribed,
\* written or modified, and the loop not moved.
C14_RunEnds ==
    /\ apc' = "raised"
    /\ transcribed' = transcribed
    /\ writes' = writes
    /\ fs' = fs
    /\ fi' = fi

\* The step that transcribes the file reached.
C14_Transcribed ==
    /\ apc' = "write"
    /\ transcribed' = Append(transcribed, audio_files[fi])
    /\ fi' = fi /\ fs' = fs /\ writes' = writes

\* Any other reached file is transcribed and then written, with no other
\* outcome.
C14_StrictStep ==
    /\ (ReachesFile /\ ~(SidecarThere /\ ~overwrite)) => C14_Transcribed
    /\ apc = "write" => C14_Written

\* Any other reached file is transcribed next, or the run ends there; it is
\* then written, or the run ends there, and it is written whenever the result
\* holds only finite timing values.  A run that has ended takes no further step.
C14_ProcessStep ==
    /\ (ReachesFile /\ ~(SidecarThere /\ ~overwrite)) => (C14_Transcribed \/ C14_RunEnds)
    /\ apc = "write" => (C14_Written \/ C14_RunEnds)
    /\ (apc = "write" /\ FiniteResult) => C14_Written
    /\ apc # "raised"

\* Every file already passed was either skipped (no transcription, no write)
\* or transcribed once and written once by the selected writer to its own
\* sidecar path; the file in progress has at most its transcription; files
\* not yet reached have nothing.
C14_Ledger ==
    apc \in {"loop", "write", "raised", "returned"} =>
        /\ \A k \in 1..Len(audio_files) :
            LET f == audio_files[k]
                t == CountIn(transcribed, f)
                w == Cardinality(WritesFor(f))
            IN  /\ k < fi => t = w /\ t <= 1
                /\ k = fi => /\ w = 0
                             /\ t <= 1
                             /\ apc = "write" => t = 1
                             /\ apc = "loop" => t = 0
                /\ k > fi => t = 0 /\ w = 0
        /\ \A k \in 1..Len(writes) :
            /\ writes[k][1] = WriterOf(format)
            /\ writes[k][2] = SidecarOf(writes[k][3])
            /\ transcribed[k] = writes[k][3]
            /\ fs[writes[k][2]][1] = format

\* C14 (as stated): in main's loop a file whose sidecar exists when reached,
\* overwrite not set, is neither transcribed nor written nor modified and the
\* loop continues; every other file reached is transcribed and its sidecar
\* written once, in the selected format, before the next file is started.
C14_AsStated == [][C14_SkipStep /\ C14_StrictStep]_vars /\ []C14_Ledger

\* C14 (amended): a file whose sidecar exists when reached, overwrite not set,
\* is neither transcribed nor written nor modified and the loop continues;
\* every other file reached is transcribed and its sidecar written once, in
\* the selected format, before the next file is started, unless an exception
\* ends the run at that file: then nothing is written or modified for it and
\* no later file is reached.  Once a file is transcribed, its sidecar is
\* written whenever the result holds only finite or absent timing values.
C14_WrittenUnlessRunEnds == [][C14_SkipStep /\ C14_ProcessStep]_vars /\ []C14_Ledger

\* Without overwrite, a.m4a is transcribed and its sidecar written with two
\* cues, the progress callback having received the running sums and the total;
\* a.mp3 then finds that sidecar and is skipped, and b.mp3 is skipped for its
\* old sidecar.
C14_Witness ==
    /\ apc = "returned"
    /\ ~overwrite
    /\ format = "srt"
    /\ audio_files = AudioPool
    /\ transcribed = << <<"a", "m4a">> >>
    /\ writes = << <<"write_srt", <<"a", "srt">>, <<"a", "m4a">>>> >>
    /\ fs[<<"a", "srt">>][1] = "srt"
    /\ Len(fs[<<"a", "srt">>][3]) = 2
    /\ fs[<<"b", "srt">>] = <<"old">>
    /\ calls = <<1, 3, 3>>
    /\ runs = 1
    /\ spc = "srt"

====
